---- MODULE Spec2Model ----
(***************************************************************************)
(* A model of pymeepo: the Message / Conversation value model              *)
(* (core/message.py, core/types.py), the adapter dispatch and the          *)
(* AutoGen adapter (adapters/__init__.py, adapters/autogen/adapter.py,     *)
(* core/base_agent.py) and the reference agent with its factories and its  *)
(* synchronous wrapper (core/agent.py).                                    *)
(*                                                                         *)
(* Python values are modelled as follows.                                  *)
(*   - An optional value (T | None) is a set with at most one element:     *)
(*     None is {} and a present value v is {v}.                            *)
(*   - A Content value (str | list) is a tagged record: a str s is         *)
(*     [type |-> "str", items |-> <<s>>], a list xs is                     *)
(*     [type |-> "list", items |-> xs].                                    *)
(*   - A dict is a function whose domain is the set of its keys.           *)
(*   - message_id (uuid4) and Message.created_at (datetime.now) are fresh  *)
(*     values that no modelled operation reads; they are left out of the   *)
(*     Message record.                                                     *)
(***************************************************************************)
EXTENDS Integers, Sequences, FiniteSets, TLC

VARIABLES
    msg_call,   \* the arguments of the last Message construction, or None
    msg_out,    \* its outcome: a Message or a validation error, or None
    msg_dict,   \* the result of to_dict() on that Message, or None
    conv,       \* a Conversation object
    conv_born,  \* its conversation_id, metadata and created_at when constructed
    conv_log,   \* the calls made on it since construction, in call order
    conv_ret,   \* the value returned by the last get_last_message() call
    x,          \* the external object handed to adapt()
    x_calls,    \* the operations called on x, in call order, with x's results
    adapted,    \* the outcome of adapt(x): an adapter or an error, or None
    ad_calls,   \* the operations called on the adapter, with what it returned
    ad_stream,  \* the adapter's on_messages_stream generator and, inside it,
                \* the wrapped agent's
    ad_read,    \* the last attribute read on the adapter and its outcome, or None
    x_born,     \* x as it was when adapt(x) ran, or None
    meepo,      \* the reference agent (an AsyncMeepoAgent)
    built,      \* how it was built, and its Conversation's messages right then
    arrivals,   \* the batches its Conversation took in since construction or
                \* the last on_reset, in order, each with the call that brought it
    last_op,    \* the operation of the agent that ran last
    response,   \* what the last on_messages call returned, or None
    raised,     \* the exception the last operation of the agent raised, with
                \* the batch it was given, or None
    streams,    \* the on_messages_stream calls: one generator per identifier
    sync_out    \* the last generate_response call of the synchronous wrapper:
                \* its argument, the Conversation it built, its result; or None

msg_vars == <<msg_call, msg_out, msg_dict>>
conv_vars == <<conv, conv_born, conv_log, conv_ret>>
adapter_vars ==
    <<x, x_calls, adapted, ad_calls, ad_stream, ad_read, x_born>>
agent_vars == <<meepo, built, arrivals, last_op, response, raised, streams>>
sync_vars == <<sync_out>>
vars == <<msg_vars, conv_vars, adapter_vars, agent_vars, sync_vars>>
not_msg_vars == <<conv_vars, adapter_vars, agent_vars, sync_vars>>
not_conv_vars == <<msg_vars, adapter_vars, agent_vars, sync_vars>>
not_adapter_vars == <<msg_vars, conv_vars, agent_vars, sync_vars>>
not_agent_vars == <<msg_vars, conv_vars, adapter_vars, sync_vars>>
not_sync_vars == <<msg_vars, conv_vars, adapter_vars>>

----------------------------------------------------------------------------
(* Python values *)

None == {}
Some(v) == {v}
The(o) == CHOOSE v \in o : TRUE

StrC(s) == [type |-> "str", items |-> <<s>>]
ListC(xs) == [type |-> "list", items |-> xs]

\* bool(x) of an optional str: None and "" are falsy.
TruthyStr(o) == o # None /\ The(o) # ""

\* bool(x) of an optional pydantic model: only None is falsy.
TruthyObj(o) == o # None

----------------------------------------------------------------------------
(* core/types.py *)

Role ==
    [SYSTEM |-> "system", USER |-> "user", ASSISTANT |-> "assistant",
     TOOL |-> "tool", FUNCTION |-> "function"]

\* Role(v): the members whose value is v; empty when Role(v) raises ValueError.
RoleLookup(v) == {m \in DOMAIN Role : Role[m] = v}

FunctionCall(name, arguments, result) ==
    [name |-> name, arguments |-> arguments, result |-> result]

\* FunctionCall.model_dump(): every declared field, set or not.
model_dump(fc) ==
    [name |-> fc.name, arguments |-> fc.arguments, result |-> fc.result]

----------------------------------------------------------------------------
(* core/message.py: Message *)

validate_role_default(v) ==
    IF RoleLookup(v) # {}
    THEN [ok |-> TRUE, role |-> The(RoleLookup(v))]
    ELSE [ok |-> TRUE, role |-> "USER"]

validate_role(v) ==
    IF RoleLookup(v) # {}
    THEN [ok |-> TRUE, role |-> The(RoleLookup(v))]
    ELSE [ok |-> FALSE,
          error |-> [exc |-> "ValidationError",
                     message |-> <<"Invalid role: ", v>>]]

\* Message(role=..., content=..., name=..., function_call=...)
MessageNew(role, content, name, function_call) ==
    LET r == validate_role(role) IN
    IF r.ok
    THEN [ok |-> TRUE,
          message |-> [role |-> r.role, content |-> content, name |-> name,
                       function_call |-> function_call]]
    ELSE [ok |-> FALSE, error |-> r.error]

to_dict(m) ==
    LET base == [role |-> Role[m.role], content |-> m.content]
        named == IF TruthyStr(m.name)
                 THEN base @@ [name |-> The(m.name)]
                 ELSE base
    IN  IF TruthyObj(m.function_call)
        THEN named @@ [function_call |-> model_dump(The(m.function_call))]
        ELSE named

Message_system(content, name) ==
    MessageNew(Role.SYSTEM, content, name, None).message

Message_user(content, name) ==
    MessageNew(Role.USER, content, name, None).message

Message_assistant(content, name, function_call) ==
    MessageNew(Role.ASSISTANT, content, name, function_call).message

Message_tool(content, name) ==
    MessageNew(Role.TOOL, content, name, None).message

Message_function(content, name) ==
    MessageNew(Role.FUNCTION, content, Some(name), None).message

----------------------------------------------------------------------------
(* core/message.py: Conversation *)

\* Conversation(conversation_id=..., metadata=..., created_at=...)
ConversationNew(id, metadata, created_at) ==
    [conversation_id |-> id, messages |-> <<>>, metadata |-> metadata,
     created_at |-> created_at]

add_message_front(c, m) == [c EXCEPT !.messages = <<m>> \o @]

add_message(c, m) == [c EXCEPT !.messages = Append(@, m)]

add_system_message(c, content, name) ==
    add_message(c, Message_system(content, name))

add_user_message(c, content, name) ==
    add_message(c, Message_user(content, name))

add_assistant_message(c, content, name, function_call) ==
    add_message(c, Message_assistant(content, name, function_call))

add_tool_message(c, content, name) ==
    add_message(c, Message_tool(content, name))

add_function_message(c, content, name) ==
    add_message(c, Message_function(content, name))

get_last_message(c) ==
    IF c.messages = <<>> THEN None ELSE Some(c.messages[Len(c.messages)])

clear_keep_first(c) ==
    [c EXCEPT !.messages = IF @ = <<>> THEN <<>> ELSE <<@[1]>>]

clear(c) == [c EXCEPT !.messages = <<>>]

----------------------------------------------------------------------------
(* core/agent.py: AsyncMeepoAgent *)

\* a or b, for optional strings
PyOr(a, b) == IF TruthyStr(a) THEN a ELSE b

RECURSIVE Join(_)
\* "".join(parts)
Join(parts) ==
    IF parts = <<>> THEN "" ELSE parts[1] \o Join(Tail(parts))

RECURSIVE ReprItems(_)
\* ", ".join(repr(s) for s in items), for str items
ReprItems(items) ==
    IF items = <<>> THEN ""
    ELSE IF Len(items) = 1 THEN "'" \o items[1] \o "'"
    ELSE "'" \o items[1] \o "', " \o ReprItems(Tail(items))

\* str(content): a str is itself, a list is rendered as Python prints it.
PyStr(content) ==
    IF content.type = "str" THEN content
    ELSE StrC("[" \o ReprItems(content.items) \o "]")

AsyncMeepoAgent(name, description, agent_type, system_message, llm_config) ==
    LET c == ConversationNew("agent-conversation", <<>>, "t0") IN
    [name |-> name, description |-> description, agent_type |-> agent_type,
     _system_message |-> system_message,
     _llm_config |-> IF llm_config = None THEN <<>> ELSE The(llm_config),
     _conversation |->
        IF TruthyStr(system_message)
        THEN add_system_message(c, StrC(The(system_message)), None)
        ELSE c]

create_assistant(name, llm, system_message, description) ==
    AsyncMeepoAgent(name, description, "assistant",
                    PyOr(system_message, Some("You are a helpful AI assistant.")),
                    Some([model |-> llm]))

create_code_executor(name, llm, system_message, description) ==
    AsyncMeepoAgent(name, description, "code_executor",
                    PyOr(system_message,
                         Some("You are a code execution agent capable of running code and "
                              \o "returning the results.")),
                    Some([model |-> llm]))

\* create_user_proxy(name, description, **kwargs): system_message can only
\* come through kwargs.
create_user_proxy(name, description, system_message) ==
    AsyncMeepoAgent(name, description, "user_proxy", system_message, None)

convert_by_source(messages) ==
    [i \in 1..Len(messages) |->
        IF messages[i].source = "user"
        THEN Message_user(PyStr(messages[i].content), None)
        ELSE Message_assistant(PyStr(messages[i].content), None, None)]

_convert_autogen_messages(messages) ==
    [i \in 1..Len(messages) |->
        IF messages[i].kind = "TextMessage"
        THEN Message_user(messages[i].content, None)
        ELSE Message_user(PyStr(messages[i].content), None)]

add_first_only(c, ms) ==
    IF ms = <<>> THEN c ELSE add_message(c, ms[1])

RECURSIVE AddAll(_, _)
\* for message in pymeepo_messages: conversation.add_message(message)
AddAll(c, ms) ==
    IF ms = <<>> THEN c ELSE AddAll(add_message(c, ms[1]), Tail(ms))

_generate_response == "This is a placeholder response from AsyncMeepoAgent."

chunks_of_another_text ==
    <<"This ", "is ", "a ", "streamed ", "response ", "from ",
      "AsyncMeepoAgent.">>

\* The chunks _generate_response_stream yields, one per step.
chunks ==
    <<"This ", "is ", "a ", "placeholder ", "response ", "from ",
      "AsyncMeepoAgent.">>

TextMessage(content, source) ==
    [kind |-> "TextMessage", content |-> content, source |-> source]

Response(chat_message) == [type |-> "Response", chat_message |-> chat_message]

ModelClientStreamingChunkEvent(content, source) ==
    [type |-> "ModelClientStreamingChunkEvent", content |-> content,
     source |-> source]

\* The part of on_messages and of on_messages_stream that runs before the
\* response is generated: convert the batch, then append it.
take_in(a, messages) ==
    [a EXCEPT !._conversation =
        AddAll(@, _convert_autogen_messages(messages))]

\* msg.content: the object has the attribute, or AttributeError.
HasContent(msg) == "content" \in DOMAIN msg

\* Message.content is declared Content: a str or a list passes validation.
ValidContent(content) == content.type \in {"str", "list"}

\* The exception the conversion of one message raises, or None.
ConvertError(msg) ==
    IF ~HasContent(msg) THEN Some("AttributeError")
    ELSE IF msg.kind = "TextMessage" /\ ~ValidContent(msg.content)
         THEN Some("ValidationError")
         ELSE None

\* The position of the first message whose conversion raises, 0 if none does.
FirstFailure(messages) ==
    LET bad == {i \in 1..Len(messages) : ConvertError(messages[i]) # None}
    IN  IF bad = {} THEN 0 ELSE CHOOSE i \in bad : \A j \in bad : i <= j

convert_and_append_in_turn(a, messages) ==
    LET k == FirstFailure(messages) IN
    IF k = 0
    THEN [agent |-> take_in(a, messages), raised |-> None]
    ELSE [agent |-> take_in(a, SubSeq(messages, 1, k - 1)),
          raised |-> Some([exc |-> The(ConvertError(messages[k])),
                           messages |-> messages])]

\* take_in with the failure of the conversion: the loop of
\* _convert_autogen_messages ends at the first message that raises, before
\* on_messages (or the generator) has appended anything.
take_in_or_raise(a, messages) ==
    LET k == FirstFailure(messages) IN
    IF k = 0
    THEN [agent |-> take_in(a, messages), raised |-> None]
    ELSE [agent |-> a,
          raised |-> Some([exc |-> The(ConvertError(messages[k])),
                           messages |-> messages])]

\* isinstance(message, str)
IsStr(message) == "type" \in DOMAIN message /\ message.type = "str"

\* MeepoAgent._prepare_conversation(message), a being the wrapped agent.
_prepare_conversation(a, message) ==
    LET fresh == ConversationNew("prepared-conversation", <<>>, "t1")
        seeded == IF TruthyStr(a._system_message)
                  THEN add_system_message(fresh, StrC(The(a._system_message)),
                                          None)
                  ELSE fresh
    IN  IF IsStr(message)
        THEN add_user_message(seeded, message, None)
        ELSE add_message(seeded, message)

on_reset_clear_only(a) == [a EXCEPT !._conversation = clear(@)]

on_reset(a) ==
    [a EXCEPT !._conversation =
        IF TruthyStr(a._system_message)
        THEN add_system_message(clear(@), StrC(The(a._system_message)), None)
        ELSE clear(@)]

accumulate_last(response_content, chunk) == chunk

\* response_content += chunk
accumulate(response_content, chunk) == response_content \o chunk

\* An on_messages_stream generator that does not exist (yet).
NoStream ==
    [pc |-> "none", messages |-> <<>>, idx |-> 0, response_content |-> "",
     emitted |-> <<>>, cancelled |-> FALSE, seen_at_cancel |-> 0,
     outcome |-> "none"]

----------------------------------------------------------------------------
(* adapters/__init__.py and adapters/autogen/adapter.py *)

\* isinstance(agent, BaseChatAgent): the class is among the object's bases.
IsBaseChatAgent(agent) == "BaseChatAgent" \in agent.mro

\* AutogenAdapter(agent): name and description are read from the agent and
\* handed to the base class; the agent is kept as _internal_agent.
AutogenAdapter(agent) ==
    [class |-> "AutogenAdapter", name |-> agent.name,
     description |-> agent.description, _internal_agent |-> agent.id]

adapt_anything(agent) ==
    [ok |-> TRUE,
     adapter |-> [class |-> "AutogenAdapter", name |-> agent.type,
                  description |-> "", _internal_agent |-> agent.id]]

\* adapt(agent); the ValueError's message is kept as the parts of its f-string.
adapt(agent) ==
    IF IsBaseChatAgent(agent)
    THEN [ok |-> TRUE, adapter |-> AutogenAdapter(agent)]
    ELSE [ok |-> FALSE,
          error |-> [exc |-> "ValueError",
                     message |-> <<"Unsupported agent type: ", agent.type,
                                   ". ", "Currently supported frameworks: ",
                                   "AutoGen">>]]

\* One call of operation op on the wrapped agent, and what the agent answered.
Call(op, args, result) == [op |-> op, args |-> args, result |-> result]

\* What a callee can answer: a returned value or a raised exception.
Return(v) == [kind |-> "return", value |-> v]
Raise(e) == [kind |-> "raise", value |-> e]

\* A reference to the None object, where a reference to an agent can stand.
NoneRef == "None"

\* AutogenAdapter.__new__(AutogenAdapter): an instance on which __init__ has
\* not assigned _internal_agent, as __init__ has it before its last line and
\* as copy.copy and pickle build it before they restore the state.  The
\* class body only annotates _internal_agent, so the attribute is absent.
AutogenAdapter_new == [class |-> "AutogenAdapter"]

\* self.__getattr__(name), called when the normal lookup of name on the
\* adapter fails; wrapped is the object self._internal_agent refers to, as
\* it is now.  On an instance without the attribute _internal_agent, the
\* first line's self._internal_agent fails the normal lookup and enters
\* __getattr__ again, and so on until the interpreter's recursion limit.
__getattr__(self, wrapped, name) ==
    IF "_internal_agent" \notin DOMAIN self
    THEN Raise([exc |-> "RecursionError",
                message |-> <<"maximum recursion depth exceeded">>])
    ELSE IF self._internal_agent = NoneRef
    THEN Raise([exc |-> "AttributeError",
                message |-> <<self.class, " has no internal agent">>])
    ELSE IF name \in DOMAIN wrapped
    THEN Return(wrapped[name])
    ELSE Raise([exc |-> "AttributeError",
                message |-> <<self.class, " has no attribute '", name, "'">>])

produced_message_types_at_construction(self, wrapped) ==
    The(x_born).produced_message_types

\* adapter.produced_message_types: read from the wrapped agent at each read.
produced_message_types(self, wrapped) == wrapped.produced_message_types

\* adapter.name and adapter.description: what __init__ handed to the base
\* class.
name_of(self) == self.name
description_of(self) == self.description

----------------------------------------------------------------------------
(* Inputs of the Message operations *)

RoleStrings ==
    {"system", "user", "assistant", "tool", "function",
     "", "SYSTEM", "admin"}

Contents == {StrC("hello"), StrC(""), ListC(<<"a", "b">>)}

Names == {None, Some(""), Some("alice")}

FunctionCalls ==
    {None,
     Some(FunctionCall("f", [x |-> "1"], None)),
     Some(FunctionCall("f", [x |-> "1"], Some("42")))}

\* The longest sequence of calls made on the Conversation.
MaxCalls == 3

ConvIds == {"c1", "c2"}
Metadatas == {<<>>, [topic |-> "t"]}
ConvContents == {StrC("hi"), StrC("yo")}

\* A fresh Conversation.
ConvFresh ==
    /\ \E id \in ConvIds, md \in Metadatas :
          /\ conv = ConversationNew(id, md, "t0")
          /\ conv_born = [conversation_id |-> id, metadata |-> md,
                          created_at |-> "t0"]
    /\ conv_log = <<>>
    /\ conv_ret = None

\* No Message has been constructed yet.
MsgFresh ==
    /\ msg_call = None
    /\ msg_out = None
    /\ msg_dict = None

\* The components a specification does not exercise: one state of each.
ConvIdle ==
    /\ conv = ConversationNew("c1", <<>>, "t0")
    /\ conv_born = [conversation_id |-> "c1", metadata |-> <<>>,
                    created_at |-> "t0"]
    /\ conv_log = <<>>
    /\ conv_ret = None

\* An adapter generator that does not exist (yet).
NoAdapterStream ==
    [pc |-> "none", args |-> <<>>, x_args |-> None, x_yielded |-> <<>>,
     x_outcome |-> None, emitted |-> <<>>, outcome |-> None]

AdapterIdle ==
    /\ x = [id |-> "x", type |-> "str", mro |-> {"str", "object"}]
    /\ x_calls = <<>>
    /\ adapted = None
    /\ ad_calls = <<>>
    /\ ad_stream = NoAdapterStream
    /\ ad_read = None
    /\ x_born = None

StreamIds == {"s1", "s2"}

AgentIdle ==
    /\ meepo = AsyncMeepoAgent("bot", "", "assistant", None, None)
    /\ built = [via |-> "AsyncMeepoAgent", system_message |-> None,
                messages |-> <<>>]
    /\ arrivals = <<>>
    /\ last_op = "__init__"
    /\ response = None
    /\ raised = None
    /\ streams = [s \in StreamIds |-> NoStream]
    /\ sync_out = None

MsgInit == MsgFresh /\ ConvIdle /\ AdapterIdle /\ AgentIdle

\* Message(role=<str>, ...)
Construct ==
    \E r \in RoleStrings, c \in Contents, n \in Names, f \in FunctionCalls :
        /\ msg_call' = Some([via |-> "Message", role |-> r, content |-> c,
                             name |-> n, function_call |-> f])
        /\ msg_out' = Some(MessageNew(r, c, n, f))
        /\ msg_dict' = None
        /\ UNCHANGED not_msg_vars

\* Message.system(content, name)
ConstructSystem ==
    \E c \in Contents, n \in Names :
        /\ msg_call' = Some([via |-> "system", role |-> Role.SYSTEM,
                             content |-> c, name |-> n,
                             function_call |-> None])
        /\ msg_out' = Some([ok |-> TRUE, message |-> Message_system(c, n)])
        /\ msg_dict' = None
        /\ UNCHANGED not_msg_vars

\* m.to_dict()
ToDict ==
    /\ msg_out # None
    /\ The(msg_out).ok
    /\ msg_dict' = Some(to_dict(The(msg_out).message))
    /\ UNCHANGED <<msg_call, msg_out>>
    /\ UNCHANGED not_msg_vars

NextMessage == Construct \/ ConstructSystem \/ ToDict

SpecMessage == MsgInit /\ [][NextMessage]_vars

----------------------------------------------------------------------------
(* Operations on the Conversation *)

ConvInit == MsgFresh /\ ConvFresh /\ AdapterIdle /\ AgentIdle

Logged(op, role, content) == [op |-> op, role |-> role, content |-> content]

\* conv.add_message(m), m built by the caller
AddMessage ==
    /\ Len(conv_log) < MaxCalls
    /\ \E m \in {Message_tool(StrC("hi"), None),
                 Message_assistant(StrC("yo"), None,
                     Some(FunctionCall("f", [x |-> "1"], None)))} :
          /\ conv' = add_message(conv, m)
          /\ conv_log' = Append(conv_log,
                                Logged("add_message", Role[m.role], m.content))
    /\ UNCHANGED <<conv_born, conv_ret, not_conv_vars>>

AddSystemMessage ==
    /\ Len(conv_log) < MaxCalls
    /\ \E c \in ConvContents :
          /\ conv' = add_system_message(conv, c, None)
          /\ conv_log' = Append(conv_log,
                                Logged("add_system_message", "system", c))
    /\ UNCHANGED <<conv_born, conv_ret, not_conv_vars>>

AddUserMessage ==
    /\ Len(conv_log) < MaxCalls
    /\ \E c \in ConvContents, n \in {None, Some("ann")} :
          /\ conv' = add_user_message(conv, c, n)
          /\ conv_log' = Append(conv_log,
                                Logged("add_user_message", "user", c))
    /\ UNCHANGED <<conv_born, conv_ret, not_conv_vars>>

AddAssistantMessage ==
    /\ Len(conv_log) < MaxCalls
    /\ \E c \in ConvContents :
          /\ conv' = add_assistant_message(conv, c, None, None)
          /\ conv_log' = Append(conv_log,
                                Logged("add_assistant_message", "assistant", c))
    /\ UNCHANGED <<conv_born, conv_ret, not_conv_vars>>

AddToolMessage ==
    /\ Len(conv_log) < MaxCalls
    /\ \E c \in ConvContents :
          /\ conv' = add_tool_message(conv, c, None)
          /\ conv_log' = Append(conv_log,
                                Logged("add_tool_message", "tool", c))
    /\ UNCHANGED <<conv_born, conv_ret, not_conv_vars>>

AddFunctionMessage ==
    /\ Len(conv_log) < MaxCalls
    /\ \E c \in ConvContents :
          /\ conv' = add_function_message(conv, c, "fn")
          /\ conv_log' = Append(conv_log,
                                Logged("add_function_message", "function", c))
    /\ UNCHANGED <<conv_born, conv_ret, not_conv_vars>>

GetLastMessage ==
    /\ Len(conv_log) < MaxCalls
    /\ conv_ret' = get_last_message(conv)
    /\ conv_log' = Append(conv_log,
                          Logged("get_last_message", "", StrC("")))
    /\ UNCHANGED <<conv, conv_born, not_conv_vars>>

Clear ==
    /\ Len(conv_log) < MaxCalls
    /\ conv' = clear(conv)
    /\ conv_log' = Append(conv_log, Logged("clear", "", StrC("")))
    /\ UNCHANGED <<conv_born, conv_ret, not_conv_vars>>

NextConversation ==
    \/ AddMessage
    \/ AddSystemMessage
    \/ AddUserMessage
    \/ AddAssistantMessage
    \/ AddToolMessage
    \/ AddFunctionMessage
    \/ GetLastMessage
    \/ Clear

SpecConversation == ConvInit /\ [][NextConversation]_vars

----------------------------------------------------------------------------
(* Operations on the adapter; the wrapped agent x is a test double that     *)
(* records every call and answers as it likes.                             *)

\* The longest sequence of calls made on the adapter.
MaxAdapterCalls == 3

\* The objects handed to adapt(): two of the chat-agent shape, three not.
Objects ==
    {[id |-> "x", type |-> "AssistantAgent",
      mro |-> {"AssistantAgent", "BaseChatAgent", "object"},
      name |-> "assistant", description |-> "An agent"],
     [id |-> "x", type |-> "AsyncMeepoAgent",
      mro |-> {"AsyncMeepoAgent", "BaseChatAgent", "object"},
      name |-> "bot", description |-> ""],
     [id |-> "x", type |-> "str", mro |-> {"str", "object"}],
     [id |-> "x", type |-> "NoneType", mro |-> {"NoneType", "object"}],
     [id |-> "x", type |-> "LangChainAgent",
      mro |-> {"LangChainAgent", "object"},
      name |-> "chain", description |-> "Not a chat agent"]}

ChatMessages(source, text) ==
    [kind |-> "TextMessage", source |-> source, content |-> StrC(text)]

Batches == {<<>>, <<ChatMessages("user", "hi"), ChatMessages("bot", "yo")>>}
Tokens == {"token1", "token2"}
States == {<<>>, [turn |-> "3"]}

\* What the double answers to each operation.
ResponseAnswers == {Return([chat_message |-> ChatMessages("assistant", "ok")]),
                    Raise("RuntimeError")}
VoidAnswers == {Return(None), Raise("RuntimeError")}
StateAnswers == {Return(s) : s \in States}

AdapterInit ==
    /\ MsgFresh
    /\ ConvIdle
    /\ AgentIdle
    /\ x \in Objects
    /\ x_calls = <<>>
    /\ adapted = None
    /\ ad_calls = <<>>
    /\ ad_stream = NoAdapterStream
    /\ ad_read = None
    /\ x_born = None

HasAdapter ==
    /\ adapted # None
    /\ The(adapted).ok
    /\ Len(ad_calls) < MaxAdapterCalls

\* adapt(x)
Adapt ==
    /\ adapted = None
    /\ adapted' = Some(adapt(x))
    /\ x_born' = Some(x)
    /\ UNCHANGED <<x, x_calls, ad_calls, ad_stream, ad_read, not_adapter_vars>>

Adapter_on_messages_twice ==
    /\ HasAdapter
    /\ \E m \in Batches, t \in Tokens, r \in ResponseAnswers :
          /\ x_calls' = x_calls \o <<Call("on_messages", <<m, t>>, r),
                                     Call("on_messages", <<m, t>>, r)>>
          /\ ad_calls' = Append(ad_calls, Call("on_messages", <<m, t>>, r))
    /\ UNCHANGED <<x, adapted, ad_stream, ad_read, x_born, not_adapter_vars>>

\* adapter.on_messages(messages, cancellation_token)
Adapter_on_messages ==
    /\ HasAdapter
    /\ \E m \in Batches, t \in Tokens, r \in ResponseAnswers :
          /\ x_calls' = Append(x_calls, Call("on_messages", <<m, t>>, r))
          /\ ad_calls' = Append(ad_calls, Call("on_messages", <<m, t>>, r))
    /\ UNCHANGED <<x, adapted, ad_stream, ad_read, x_born, not_adapter_vars>>

\* adapter.on_reset(cancellation_token); the awaited result is not returned,
\* an exception propagates.
Adapter_on_reset ==
    /\ HasAdapter
    /\ \E t \in Tokens, r \in VoidAnswers :
          /\ x_calls' = Append(x_calls, Call("on_reset", <<t>>, r))
          /\ ad_calls' = Append(ad_calls,
                Call("on_reset", <<t>>,
                     IF r.kind = "raise" THEN r ELSE Return(None)))
    /\ UNCHANGED <<x, adapted, ad_stream, ad_read, x_born, not_adapter_vars>>

\* adapter.save_state(); the cast changes nothing at run time.
Adapter_save_state ==
    /\ HasAdapter
    /\ \E r \in StateAnswers \cup {Raise("RuntimeError")} :
          /\ x_calls' = Append(x_calls, Call("save_state", <<>>, r))
          /\ ad_calls' = Append(ad_calls, Call("save_state", <<>>, r))
    /\ UNCHANGED <<x, adapted, ad_stream, ad_read, x_born, not_adapter_vars>>

\* adapter.load_state(state)
Adapter_load_state ==
    /\ HasAdapter
    /\ \E st \in States, r \in VoidAnswers :
          /\ x_calls' = Append(x_calls, Call("load_state", <<st>>, r))
          /\ ad_calls' = Append(ad_calls,
                Call("load_state", <<st>>,
                     IF r.kind = "raise" THEN r ELSE Return(None)))
    /\ UNCHANGED <<x, adapted, ad_stream, ad_read, x_born, not_adapter_vars>>

\* adapter.close()
Adapter_close ==
    /\ HasAdapter
    /\ \E r \in VoidAnswers :
          /\ x_calls' = Append(x_calls, Call("close", <<>>, r))
          /\ ad_calls' = Append(ad_calls,
                Call("close", <<>>,
                     IF r.kind = "raise" THEN r ELSE Return(None)))
    /\ UNCHANGED <<x, adapted, ad_stream, ad_read, x_born, not_adapter_vars>>

NextAdapter ==
    \/ Adapt
    \/ Adapter_on_messages
    \/ Adapter_on_reset
    \/ Adapter_save_state
    \/ Adapter_load_state
    \/ Adapter_close

SpecAdapter == AdapterInit /\ [][NextAdapter]_vars

----------------------------------------------------------------------------
(* The adapter's on_messages_stream.  The wrapped agent's generator is a    *)
(* test double: asked for its next item it yields an item of its choice,   *)
(* ends, or raises.                                                        *)

\* The most items the wrapped agent's generator yields.
MaxItems == 3

StreamItems ==
    {ModelClientStreamingChunkEvent("a", "assistant"),
     ModelClientStreamingChunkEvent("b", "assistant"),
     Response(ChatMessages("assistant", "ab"))}

Yield(v) == [kind |-> "yield", value |-> v]
StopAsyncIteration == [kind |-> "end", value |-> None]

StreamAnswers ==
    {Yield(i) : i \in StreamItems} \cup {StopAsyncIteration, Raise("RuntimeError")}

\* adapter.on_messages_stream(messages, cancellation_token): the call builds
\* the adapter's generator and runs none of its body.
Adapter_on_messages_stream ==
    /\ adapted # None
    /\ The(adapted).ok
    /\ ad_stream.pc \in {"none", "closed"}
    /\ \E m \in Batches, t \in Tokens :
          ad_stream' = [NoAdapterStream EXCEPT !.pc = "new", !.args = <<m, t>>]
    /\ UNCHANGED <<x, x_calls, adapted, ad_calls, ad_read, x_born,
                   not_adapter_vars>>

AdapterStreamNext_responses_only ==
    /\ ad_stream.pc \in {"new", "running"}
    /\ \E a \in StreamAnswers :
          /\ a.kind = "yield" => Len(ad_stream.x_yielded) < MaxItems
          /\ ad_stream' =
                [ad_stream EXCEPT
                    !.x_args = IF ad_stream.pc = "new"
                               THEN Some(ad_stream.args) ELSE @,
                    !.x_yielded = IF a.kind = "yield"
                                  THEN Append(@, a.value) ELSE @,
                    !.x_outcome = IF a.kind = "yield" THEN @ ELSE Some(a),
                    !.emitted = IF a.kind = "yield" /\ a.value.type = "Response"
                                THEN Append(@, a.value) ELSE @,
                    !.pc = IF a.kind = "yield" THEN "running" ELSE "closed",
                    !.outcome = IF a.kind = "yield" THEN @ ELSE Some(a)]
    /\ UNCHANGED <<x, x_calls, adapted, ad_calls, ad_read, x_born,
                   not_adapter_vars>>

\* The consumer asks the adapter's generator for its next item.  The first
\* time, the body calls the wrapped agent's on_messages_stream with the
\* arguments it was given; every time, the async for asks the wrapped
\* generator for its next item and yields it; the wrapped generator's end
\* ends the loop and the body, its exception leaves the body uncaught.
AdapterStreamNext ==
    /\ ad_stream.pc \in {"new", "running"}
    /\ \E a \in StreamAnswers :
          /\ a.kind = "yield" => Len(ad_stream.x_yielded) < MaxItems
          /\ ad_stream' =
                [ad_stream EXCEPT
                    !.x_args = IF ad_stream.pc = "new"
                               THEN Some(ad_stream.args) ELSE @,
                    !.x_yielded = IF a.kind = "yield"
                                  THEN Append(@, a.value) ELSE @,
                    !.x_outcome = IF a.kind = "yield" THEN @ ELSE Some(a),
                    !.emitted = IF a.kind = "yield"
                                THEN Append(@, a.value) ELSE @,
                    !.pc = IF a.kind = "yield" THEN "running" ELSE "closed",
                    !.outcome = IF a.kind = "yield" THEN @ ELSE Some(a)]
    /\ UNCHANGED <<x, x_calls, adapted, ad_calls, ad_read, x_born,
                   not_adapter_vars>>

\* The consumer gives the adapter's generator up (aclose()): the body ends at
\* its yield; the wrapped generator is left where it is.
AdapterStreamClose ==
    /\ ad_stream.pc \in {"new", "running"}
    /\ ad_stream' = [ad_stream EXCEPT !.pc = "closed",
                                      !.outcome = Some(Raise("GeneratorExit"))]
    /\ UNCHANGED <<x, x_calls, adapted, ad_calls, ad_read, x_born,
                   not_adapter_vars>>

NextAdapterStream ==
    \/ Adapt
    \/ Adapter_on_messages_stream
    \/ AdapterStreamNext
    \/ AdapterStreamClose

SpecAdapterStream == AdapterInit /\ [][NextAdapterStream]_vars

----------------------------------------------------------------------------
(* Attribute reads on the adapter, while the wrapped agent's attributes     *)
(* change under it.                                                        *)

\* Two chat agents; only the first has the extra member model_context.
LiveObjects ==
    {[id |-> "x", type |-> "AssistantAgent",
      mro |-> {"AssistantAgent", "BaseChatAgent", "object"},
      name |-> "assistant", description |-> "An agent",
      produced_message_types |-> <<"TextMessage">>,
      model_context |-> "ctx1"],
     [id |-> "x", type |-> "EchoAgent",
      mro |-> {"EchoAgent", "BaseChatAgent", "object"},
      name |-> "echo", description |-> "",
      produced_message_types |-> <<"TextMessage">>]}

\* The values the wrapped agent's attributes are set to.
AttributeValues ==
    [name |-> {"renamed"},
     description |-> {"changed"},
     produced_message_types |-> {<<"TextMessage", "MultiModalMessage">>},
     model_context |-> {"ctx1", "ctx2"}]

\* Names the adapter does not define itself.
LookupNames == {"model_context", "no_such_member"}

\* setattr(obj, attr, value)
setattr(obj, attr, value) ==
    [n \in DOMAIN obj \cup {attr} |-> IF n = attr THEN value ELSE obj[n]]

AttrsInit ==
    /\ MsgFresh
    /\ ConvIdle
    /\ AgentIdle
    /\ x \in LiveObjects
    /\ x_calls = <<>>
    /\ adapted = None
    /\ ad_calls = <<>>
    /\ ad_stream = NoAdapterStream
    /\ ad_read = None
    /\ x_born = None

\* The wrapped agent, or its owner, changes one of its attributes.
XSetattr ==
    /\ \E attr \in DOMAIN AttributeValues :
          \E value \in AttributeValues[attr] :
              x' = setattr(x, attr, value)
    /\ UNCHANGED <<x_calls, adapted, ad_calls, ad_stream, ad_read, x_born,
                   not_adapter_vars>>

\* adapter._internal_agent = None
Detach ==
    /\ adapted # None
    /\ The(adapted).ok
    /\ adapted' = Some([The(adapted) EXCEPT
                            !.adapter._internal_agent = NoneRef])
    /\ UNCHANGED <<x, x_calls, ad_calls, ad_stream, ad_read, x_born,
                   not_adapter_vars>>

\* adapter.name, adapter.description, adapter.produced_message_types
AdapterRead ==
    /\ adapted # None
    /\ The(adapted).ok
    /\ The(adapted).adapter._internal_agent # NoneRef
    /\ LET self == The(adapted).adapter IN
       \E op \in {"name", "description", "produced_message_types"} :
          ad_read' = Some(
            [op |-> op, name |-> op, self |-> self,
             wrapped_has |-> TRUE, wrapped_value |-> x[op],
             result |-> Return(
                CASE op = "name" -> name_of(self)
                  [] op = "description" -> description_of(self)
                  [] op = "produced_message_types" ->
                        produced_message_types(self, x))])
    /\ UNCHANGED <<x, x_calls, adapted, ad_calls, ad_stream, x_born,
                   not_adapter_vars>>

\* getattr(adapter, name) for a name the adapter's classes do not define.
AdapterGetattr ==
    /\ adapted # None
    /\ The(adapted).ok
    /\ LET self == The(adapted).adapter IN
       \E n \in LookupNames :
          ad_read' = Some(
            [op |-> "__getattr__", name |-> n, self |-> self,
             wrapped_has |-> n \in DOMAIN x,
             wrapped_value |-> IF n \in DOMAIN x THEN x[n] ELSE "",
             result |-> __getattr__(self, x, n)])
    /\ UNCHANGED <<x, x_calls, adapted, ad_calls, ad_stream, x_born,
                   not_adapter_vars>>

\* copy.copy(adapter): the copy is built by __new__, then the copier asks
\* hasattr(copy, "__setstate__") before it restores any state; hasattr
\* swallows an AttributeError and nothing else.
AdapterCopy ==
    /\ adapted # None
    /\ The(adapted).ok
    /\ ad_read' = Some(
            [op |-> "__getattr__", name |-> "__setstate__",
             self |-> AutogenAdapter_new,
             wrapped_has |-> FALSE, wrapped_value |-> "",
             result |-> __getattr__(AutogenAdapter_new, x, "__setstate__")])
    /\ UNCHANGED <<x, x_calls, adapted, ad_calls, ad_stream, x_born,
                   not_adapter_vars>>

NextAdapterAttrs ==
    \/ Adapt
    \/ XSetattr
    \/ Detach
    \/ AdapterRead
    \/ AdapterGetattr
    \/ AdapterCopy

SpecAdapterAttrs == AttrsInit /\ [][NextAdapterAttrs]_vars

----------------------------------------------------------------------------
(* Operations on the reference agent.  on_messages runs to its end without  *)
(* giving up control (_generate_response awaits nothing); an                *)
(* on_messages_stream generator runs only when its consumer asks for the    *)
(* next item, and gives up control at each yield and at the sleep between   *)
(* two chunks.                                                              *)

\* The most batches the Conversation takes in between two resets.
MaxBatches == 2

AgentBatches ==
    {<<TextMessage(StrC("hi"), "user")>>,
     <<[kind |-> "MultiModalMessage", content |-> ListC(<<"look", "here">>),
        source |-> "user"],
       TextMessage(StrC("yo"), "bot")>>}

\* Batches the conversion fails on: an item that is no message at all (None),
\* and a TextMessage built without validation whose content is an int; each
\* has a well-formed message next to the offending one.
BadBatches ==
    {<<TextMessage(StrC("hi"), "user"), [kind |-> "NoneType"]>>,
     <<TextMessage([type |-> "int", items |-> <<"7">>], "user"),
       TextMessage(StrC("yo"), "bot")>>}

SystemMessages == {None, Some(""), Some("Be brief.")}

\* The agent right after construction, by the constructor or by a factory.
AgentInit ==
    /\ MsgFresh
    /\ ConvIdle
    /\ AdapterIdle
    /\ \/ \E sm \in SystemMessages :
            /\ meepo = AsyncMeepoAgent("bot", "", "assistant", sm, None)
            /\ built = [via |-> "AsyncMeepoAgent", system_message |-> sm,
                        messages |-> meepo._conversation.messages]
       \/ \E sm \in {None, Some("Be brief.")} :
            /\ meepo = create_assistant("bot", "gpt-4", sm,
                                        "A helpful AI assistant")
            /\ built = [via |-> "create_assistant", system_message |-> sm,
                        messages |-> meepo._conversation.messages]
    /\ arrivals = <<>>
    /\ last_op = "__init__"
    /\ response = None
    /\ raised = None
    /\ streams = [s \in StreamIds |-> NoStream]
    /\ sync_out = None

Arrival(op, messages) == [op |-> op, messages |-> messages]

\* agent.on_messages(messages, cancellation_token); the token is dropped
\* unread, triggered or not.
OnMessages ==
    /\ Len(arrivals) < MaxBatches
    /\ \E m \in AgentBatches \cup BadBatches, triggered \in BOOLEAN :
          LET r == take_in_or_raise(meepo, m) IN
          /\ meepo' = r.agent
          /\ raised' = r.raised
          /\ IF r.raised = None
             THEN /\ response' =
                        Some([result |-> Response(TextMessage(
                                            _generate_response, meepo.name))])
                  /\ arrivals' = Append(arrivals, Arrival("on_messages", m))
             ELSE /\ response' = None
                  /\ arrivals' = arrivals
    /\ last_op' = "on_messages"
    /\ UNCHANGED <<built, streams, not_agent_vars>>

\* agent.on_reset(cancellation_token)
OnReset ==
    /\ meepo' = on_reset(meepo)
    /\ arrivals' = <<>>
    /\ raised' = None
    /\ last_op' = "on_reset"
    /\ UNCHANGED <<built, response, streams, not_agent_vars>>

\* agent.on_messages_stream(messages, cancellation_token): the call builds
\* the generator and runs none of its body.
StreamCall(s) ==
    /\ streams[s].pc \in {"none", "closed"}
    /\ \E m \in AgentBatches \cup BadBatches :
          streams' = [streams EXCEPT ![s] =
                         [NoStream EXCEPT !.pc = "new", !.messages = m]]
    /\ UNCHANGED <<meepo, built, arrivals, last_op, response, raised,
                   not_agent_vars>>

\* The consumer asks the generator for its next item.
StreamAdvance(s) ==
    LET st == streams[s] IN
    /\ \/ /\ st.pc = "new"
          /\ Len(arrivals) < MaxBatches
          /\ LET r == take_in_or_raise(meepo, st.messages) IN
             /\ meepo' = r.agent
             /\ raised' = r.raised
             /\ IF r.raised = None
                THEN /\ arrivals' =
                          Append(arrivals,
                                 Arrival("on_messages_stream", st.messages))
                     /\ streams' = [streams EXCEPT ![s] =
                          [st EXCEPT
                              !.pc = "yielded",
                              !.idx = 1,
                              !.response_content = accumulate("", chunks[1]),
                              !.emitted = <<ModelClientStreamingChunkEvent(
                                                chunks[1], meepo.name)>>]]
                ELSE /\ arrivals' = arrivals
                     /\ streams' = [streams EXCEPT ![s].pc = "closed",
                                                   ![s].outcome = "raised"]
       \/ /\ st.pc = "yielded"
          /\ streams' = [streams EXCEPT ![s].pc = "sleeping"]
          /\ raised' = None
          /\ UNCHANGED <<meepo, arrivals>>
       \/ /\ st.pc = "responded"
          /\ streams' = [streams EXCEPT ![s].pc = "closed",
                                        ![s].outcome = "exhausted"]
          /\ raised' = None
          /\ UNCHANGED <<meepo, arrivals>>
    /\ last_op' = "on_messages_stream"
    /\ UNCHANGED <<built, response, not_agent_vars>>

\* The longer of two strings.
Longer(a, b) == IF Len(a) >= Len(b) THEN a ELSE b

StreamWake_shared_buffer(s) ==
    LET st == streams[s]
        shared == Longer(streams["s1"].response_content,
                         streams["s2"].response_content)
    IN
    /\ st.pc = "sleeping"
    /\ IF st.idx < Len(chunks)
       THEN streams' = [streams EXCEPT ![s] =
                [st EXCEPT
                    !.pc = "yielded",
                    !.idx = st.idx + 1,
                    !.response_content =
                        accumulate(shared, chunks[st.idx + 1]),
                    !.emitted = Append(st.emitted,
                        ModelClientStreamingChunkEvent(chunks[st.idx + 1],
                                                       meepo.name))]]
       ELSE streams' = [streams EXCEPT ![s] =
                [st EXCEPT
                    !.pc = "responded",
                    !.emitted = Append(st.emitted,
                        Response(TextMessage(shared, meepo.name)))]]
    /\ raised' = None
    /\ last_op' = "on_messages_stream"
    /\ UNCHANGED <<meepo, built, arrivals, response, not_agent_vars>>

\* asyncio.sleep(0.1) is over: the next chunk, or after the last chunk the
\* Response.  The token is dropped unread, triggered or not.
StreamWake(s) ==
    LET st == streams[s] IN
    /\ st.pc = "sleeping"
    /\ IF st.idx < Len(chunks)
       THEN streams' = [streams EXCEPT ![s] =
                [st EXCEPT
                    !.pc = "yielded",
                    !.idx = st.idx + 1,
                    !.response_content =
                        accumulate(st.response_content, chunks[st.idx + 1]),
                    !.emitted = Append(st.emitted,
                        ModelClientStreamingChunkEvent(chunks[st.idx + 1],
                                                       meepo.name))]]
       ELSE streams' = [streams EXCEPT ![s] =
                [st EXCEPT
                    !.pc = "responded",
                    !.emitted = Append(st.emitted,
                        Response(TextMessage(st.response_content,
                                             meepo.name)))]]
    /\ raised' = None
    /\ last_op' = "on_messages_stream"
    /\ UNCHANGED <<meepo, built, arrivals, response, not_agent_vars>>

\* The consumer gives the generator up (aclose(), or its task is cancelled
\* during the sleep).
StreamAbandon(s) ==
    /\ streams[s].pc \in {"new", "yielded", "sleeping", "responded"}
    /\ streams' = [streams EXCEPT ![s].pc = "closed",
                                  ![s].outcome = "abandoned"]
    /\ UNCHANGED <<meepo, built, arrivals, last_op, response, raised,
                   not_agent_vars>>

\* The caller triggers the cancellation token it passed to the stream call.
TokenCancel(s) ==
    /\ streams[s].pc \in {"new", "yielded", "sleeping"}
    /\ ~streams[s].cancelled
    /\ streams' = [streams EXCEPT ![s].cancelled = TRUE,
                                  ![s].seen_at_cancel = Len(streams[s].emitted)]
    /\ UNCHANGED <<meepo, built, arrivals, last_op, response, raised,
                   not_agent_vars>>

NextAgent ==
    \/ OnMessages
    \/ OnReset
    \/ StreamCall("s1")
    \/ StreamAdvance("s1")
    \/ StreamWake("s1")
    \/ StreamAbandon("s1")
    \/ TokenCancel("s1")

SpecAgent == AgentInit /\ [][NextAgent]_vars

----------------------------------------------------------------------------
(* Two on_messages_stream calls on the same agent, their consumers running  *)
(* as two tasks of one event loop: the tasks take turns at the suspension  *)
(* points only, so each step below runs alone.                             *)

NextAgentConcurrent ==
    \/ StreamCall("s1")
    \/ StreamCall("s2")
    \/ StreamAdvance("s1")
    \/ StreamAdvance("s2")
    \/ StreamWake("s1")
    \/ StreamWake("s2")

SpecAgentConcurrent == AgentInit /\ [][NextAgentConcurrent]_vars

----------------------------------------------------------------------------
(* The synchronous wrapper MeepoAgent around the reference agent, which is  *)
(* also used directly (on_messages).                                       *)

SyncMessages ==
    {StrC("hi"), Message_assistant(StrC("earlier answer"), None, None)}

generate_response_through_on_messages ==
    /\ \E message \in SyncMessages :
          LET conversation == _prepare_conversation(meepo, message) IN
          /\ meepo' = [meepo EXCEPT !._conversation =
                          add_message(@, conversation.messages[
                                             Len(conversation.messages)])]
          /\ sync_out' = Some([message |-> message,
                               conversation |-> conversation,
                               result |-> _generate_response])
    /\ last_op' = "generate_response"
    /\ UNCHANGED <<built, arrivals, response, raised, streams,
                   not_sync_vars>>

\* MeepoAgent.generate_response(message): _generate_response is run on the
\* prepared Conversation, not through on_messages.
generate_response ==
    /\ \E message \in SyncMessages :
          LET conversation == _prepare_conversation(meepo, message) IN
          sync_out' = Some([message |-> message,
                            conversation |-> conversation,
                            result |-> _generate_response])
    /\ last_op' = "generate_response"
    /\ UNCHANGED <<meepo, built, arrivals, response, raised, streams,
                   not_sync_vars>>

\* MeepoAgent.reset(): runs the wrapped agent's on_reset.
reset ==
    /\ meepo' = on_reset(meepo)
    /\ arrivals' = <<>>
    /\ raised' = None
    /\ last_op' = "reset"
    /\ UNCHANGED <<built, response, streams, sync_out, not_sync_vars>>

NextSync ==
    \/ OnMessages
    \/ generate_response
    \/ reset

SpecSync == AgentInit /\ [][NextSync]_vars

----------------------------------------------------------------------------
(* The factories, called with and without each optional argument.           *)

\* The value of a parameter: the argument when one is passed, else the
\* default of the signature.
Default(arg, default) == IF arg = None THEN default ELSE The(arg)

Models == {None, Some("gpt-3.5")}
Descriptions == {None, Some("Custom")}

\* No factory has been called yet.
FactoryInit == MsgFresh /\ ConvIdle /\ AdapterIdle /\ AgentIdle

\* The agent a factory returned takes the place of the agent at hand; built
\* keeps the arguments the caller passed (None: not passed).
Created(via, a, llm, sm, d) ==
    /\ meepo' = a
    /\ built' = [via |-> via, llm |-> llm, system_message |-> sm,
                 description |-> d, messages |-> a._conversation.messages]
    /\ arrivals' = <<>>
    /\ last_op' = via
    /\ response' = None
    /\ raised' = None
    /\ UNCHANGED <<streams, not_agent_vars>>

\* AsyncMeepoAgent.create_assistant("bot", ...)
CreateAssistant ==
    \E llm \in Models, sm \in SystemMessages, d \in Descriptions :
        Created("create_assistant",
                create_assistant("bot", Default(llm, "gpt-4"), sm,
                                 Default(d, "A helpful AI assistant")),
                llm, sm, d)

\* AsyncMeepoAgent.create_code_executor("exec", ...)
CreateCodeExecutor ==
    \E llm \in Models, sm \in SystemMessages, d \in Descriptions :
        Created("create_code_executor",
                create_code_executor("exec", Default(llm, "gpt-4"), sm,
                                     Default(d, "An agent that can execute code")),
                llm, sm, d)

\* AsyncMeepoAgent.create_user_proxy("proxy", ...); it has no llm parameter.
CreateUserProxy ==
    \E sm \in SystemMessages, d \in Descriptions :
        Created("create_user_proxy",
                create_user_proxy("proxy", Default(d, "A user proxy agent"), sm),
                None, sm, d)

NextFactory ==
    \/ CreateAssistant
    \/ CreateCodeExecutor
    \/ CreateUserProxy
    \/ OnMessages
    \/ OnReset

SpecFactory == FactoryInit /\ [][NextFactory]_vars

----------------------------------------------------------------------------
(* Properties of Message *)

SupportedRoleStrings == {"system", "user", "assistant", "tool", "function"}

MemberOf ==
    [system |-> "SYSTEM", user |-> "USER", assistant |-> "ASSISTANT",
     tool |-> "TOOL", function |-> "FUNCTION"]

\* C1: a Message built with one of the five role strings has the matching
\* Role member as its role, the strings and the members correspond one to
\* one, and with any other string construction fails with a validation
\* error and yields no Message.
C1_RoleValidation ==
    /\ \A m1, m2 \in DOMAIN Role : Role[m1] = Role[m2] => m1 = m2
    /\ {Role[m] : m \in DOMAIN Role} = SupportedRoleStrings
    /\ (msg_call # None /\ The(msg_call).via = "Message") =>
          LET a == The(msg_call)
              o == The(msg_out)
          IN  IF a.role \in SupportedRoleStrings
              THEN /\ o.ok
                   /\ o.message.role = MemberOf[a.role]
                   /\ Role[o.message.role] = a.role
              ELSE /\ ~o.ok
                   /\ "message" \notin DOMAIN o
                   /\ o.error.exc = "ValidationError"

C1_Witness ==
    /\ msg_call # None
    /\ The(msg_call).via = "Message"
    /\ The(msg_call).role = "admin"
    /\ ~The(msg_out).ok

\* C4: to_dict() gives role as the role's string value and content as the
\* content; the key name is present exactly when a name was supplied (read
\* here as: a non-empty one), with that value; the key function_call is
\* present exactly when a FunctionCall is attached, with its name and
\* arguments, and with its result only when one was populated;
\* to_dict(Message.system("hello")) is exactly
\* {role: "system", content: "hello"}.
C4_ToDictShape ==
    msg_dict # None =>
        LET a == The(msg_call)
            d == The(msg_dict)
        IN  /\ d.role = a.role
            /\ d.content = a.content
            /\ "name" \in DOMAIN d <=> (a.name # None /\ The(a.name) # "")
            /\ "name" \in DOMAIN d => d.name = The(a.name)
            /\ "function_call" \in DOMAIN d <=> a.function_call # None
            /\ "function_call" \in DOMAIN d =>
                  LET fc == The(a.function_call)
                      g == d.function_call
                  IN  /\ g.name = fc.name
                      /\ g.arguments = fc.arguments
                      /\ "result" \in DOMAIN g <=> fc.result # None
                      /\ "result" \in DOMAIN g => g.result = fc.result
            /\ (a.via = "system" /\ a.content = StrC("hello") /\ a.name = None)
                  => d = [role |-> "system", content |-> StrC("hello")]

----------------------------------------------------------------------------
(* Properties of Conversation *)

IsAdd(e) == e.op \notin {"clear", "get_last_message"}

NoClear == \A i \in 1..Len(conv_log) : conv_log[i].op # "clear"

\* C2: on a fresh Conversation that was only added to, messages holds one
\* Message per add call, in call order, each with the role and content of
\* its call, and get_last_message() returns the Message of the most recent
\* add call, or None when there was none.
C2_MessagesFollowCalls ==
    NoClear =>
        LET adds == SelectSeq(conv_log, IsAdd)
            n == Len(conv_log)
        IN  /\ Len(conv.messages) = Len(adds)
            /\ \A i \in 1..Len(adds) :
                  /\ Role[conv.messages[i].role] = adds[i].role
                  /\ conv.messages[i].content = adds[i].content
            /\ (n > 0 /\ conv_log[n].op = "get_last_message") =>
                  IF adds = <<>>
                  THEN conv_ret = None
                  ELSE /\ conv_ret # None
                       /\ Role[The(conv_ret).role] = adds[Len(adds)].role
                       /\ The(conv_ret).content = adds[Len(adds)].content

C2_Witness ==
    /\ Len(conv_log) = 3
    /\ conv_log[1].op = "add_system_message"
    /\ conv_log[2].op = "add_function_message"
    /\ conv_log[3].op = "get_last_message"
    /\ conv_ret # None

SameIdentity ==
    /\ conv.conversation_id = conv_born.conversation_id
    /\ conv.metadata = conv_born.metadata
    /\ conv.created_at = conv_born.created_at

\* C3: right after clear() the Conversation has no messages and its
\* conversation_id, metadata and created_at are those it was built with;
\* one add call after the clear() gives a Conversation of one message with
\* the same id.
C3_ClearKeepsIdentity ==
    LET n == Len(conv_log) IN
    /\ (n > 0 /\ conv_log[n].op = "clear") =>
          conv.messages = <<>> /\ SameIdentity
    /\ (n > 1 /\ conv_log[n - 1].op = "clear" /\ IsAdd(conv_log[n])) =>
          Len(conv.messages) = 1 /\ SameIdentity

C3_Witness ==
    /\ Len(conv_log) = 3
    /\ IsAdd(conv_log[1])
    /\ conv_log[2].op = "clear"
    /\ IsAdd(conv_log[3])
    /\ Len(conv.messages) = 1
    /\ conv.metadata # <<>>

----------------------------------------------------------------------------
(* Properties of the adapter *)

\* C5: for x of the chat-agent shape adapt(x) returns an adapter, and every
\* on_messages / on_reset / save_state / load_state / close call on it makes
\* exactly one call of the same operation on x, with the same arguments, in
\* the same order, and returns what x answered; x is called at no other
\* time.
C5_AdapterForwards ==
    IsBaseChatAgent(x) =>
        /\ adapted # None =>
              /\ The(adapted).ok
              /\ The(adapted).adapter._internal_agent = x.id
        /\ Len(x_calls) = Len(ad_calls)
        /\ \A i \in 1..Len(ad_calls) :
              /\ x_calls[i].op = ad_calls[i].op
              /\ x_calls[i].args = ad_calls[i].args
              /\ ad_calls[i].result = x_calls[i].result

C5_Witness ==
    /\ IsBaseChatAgent(x)
    /\ Len(ad_calls) = 3
    /\ ad_calls[1].op = "on_messages"
    /\ ad_calls[1].args[1] # <<>>
    /\ ad_calls[1].result.kind = "return"
    /\ ad_calls[2].op = "on_reset"
    /\ ad_calls[3].op = "close"

\* C6: for x of no registered shape adapt(x) fails with an error that names
\* x's type and lists the supported frameworks; no adapter is returned, and
\* x is neither wrapped nor called.
C6_UnsupportedAgent ==
    (adapted # None /\ ~IsBaseChatAgent(x)) =>
        LET o == The(adapted) IN
        /\ ~o.ok
        /\ "adapter" \notin DOMAIN o
        /\ o.error.exc = "ValueError"
        /\ \E i \in 1..Len(o.error.message) :
              /\ i > 1
              /\ o.error.message[i - 1] = "Unsupported agent type: "
              /\ o.error.message[i] = x.type
        /\ \E i \in 1..Len(o.error.message) :
              /\ i > 1
              /\ o.error.message[i - 1] = "Currently supported frameworks: "
              /\ o.error.message[i] = "AutoGen"
        /\ x_calls = <<>>
        /\ ad_calls = <<>>

C6_Witness ==
    /\ adapted # None
    /\ x.type = "LangChainAgent"
    /\ ~The(adapted).ok

----------------------------------------------------------------------------
(* Properties of the reference agent *)

SystemOnly(text) ==
    <<[role |-> "SYSTEM", content |-> StrC(text), name |-> None,
       function_call |-> None]>>

DefaultAssistantPrompt == "You are a helpful AI assistant."

\* The seed of the Conversation: the configured system message, if any.
Seed ==
    IF meepo._system_message # None /\ The(meepo._system_message) # ""
    THEN SystemOnly(The(meepo._system_message))
    ELSE <<>>

ResetRestores ==
    /\ meepo._conversation.messages = built.messages
    /\ meepo._conversation.messages = Seed

\* C7 as amended: right after on_reset, whatever on_messages,
\* on_messages_stream and on_reset calls came before, the Conversation is
\* what it was right after construction: the one system message configured
\* (a non-empty one), else nothing; and for an agent named "bot" built by
\* create_assistant with no system message of the caller's, it is the one
\* system message carrying the default assistant prompt.
C7_ResetRestoresInitial ==
    last_op = "on_reset" =>
        /\ ResetRestores
        /\ (built.via = "create_assistant" /\ meepo.name = "bot"
                /\ built.system_message = None)
              => meepo._conversation.messages
                    = SystemOnly(DefaultAssistantPrompt)

C7_Witness ==
    /\ last_op = "on_reset"
    /\ built.via = "create_assistant"
    /\ built.system_message = None
    /\ response # None
    /\ streams["s1"].pc = "yielded"
    /\ meepo._conversation.messages = SystemOnly(DefaultAssistantPrompt)

\* C7 as stated: the same, for every assistant-type agent named "bot" built
\* with no explicit system message.
C7_Original ==
    last_op = "on_reset" =>
        /\ ResetRestores
        /\ (meepo.agent_type = "assistant" /\ meepo.name = "bot"
                /\ built.system_message = None)
              => meepo._conversation.messages
                    = SystemOnly(DefaultAssistantPrompt)

RECURSIVE Incoming(_)
\* The incoming messages of the batches, in arrival order.
Incoming(batches) ==
    IF batches = <<>> THEN <<>>
    ELSE batches[1].messages \o Incoming(Tail(batches))

OnlyOnMessages ==
    \A i \in 1..Len(arrivals) : arrivals[i].op = "on_messages"

UserMessage(content) ==
    [role |-> "USER", content |-> content, name |-> None,
     function_call |-> None]

PlaceholderText == "This is a placeholder response from AsyncMeepoAgent."

OneResponse ==
    response # None =>
        The(response).result =
            [type |-> "Response",
             chat_message |-> [kind |-> "TextMessage",
                               content |-> PlaceholderText,
                               source |-> meepo.name]]

FreshAssistantHi ==
    (built.via = "create_assistant" /\ built.system_message = None
        /\ arrivals = <<Arrival("on_messages",
                                <<TextMessage(StrC("hi"), "user")>>)>>)
      => meepo._conversation.messages
            = SystemOnly(DefaultAssistantPrompt)
                \o <<UserMessage(StrC("hi"))>>

\* C8 as amended: after on_messages calls only, since construction or the
\* last on_reset, the Conversation is the configured system message (if
\* any) followed by every incoming message of every call, in arrival order,
\* each stored with role user, whatever its kind or source, and with its
\* original content when it is a text message, the string str() gives for
\* its content otherwise; each call returns one Response with the
\* placeholder text and the agent's name as source.
C8_UserRoleAppend ==
    /\ OnlyOnMessages =>
          LET inc == Incoming(arrivals)
              ms == meepo._conversation.messages
          IN  /\ Len(ms) = Len(Seed) + Len(inc)
              /\ SubSeq(ms, 1, Len(Seed)) = Seed
              /\ \A i \in 1..Len(inc) :
                    ms[Len(Seed) + i] =
                        UserMessage(
                            IF inc[i].kind = "TextMessage"
                            THEN inc[i].content
                            ELSE IF inc[i].content = ListC(<<"look", "here">>)
                            THEN StrC("['look', 'here']")
                            ELSE inc[i].content)
    /\ OneResponse
    /\ FreshAssistantHi

C8_Witness ==
    /\ OnlyOnMessages
    /\ Len(arrivals) = 2
    /\ Len(arrivals[1].messages) = 2
    /\ Len(arrivals[2].messages) = 1
    /\ Len(meepo._conversation.messages) = 4
    /\ response # None

\* C8 as stated: every incoming message is stored with its original content.
C8_Original ==
    /\ OnlyOnMessages =>
          LET inc == Incoming(arrivals)
              ms == meepo._conversation.messages
          IN  /\ Len(ms) = Len(Seed) + Len(inc)
              /\ SubSeq(ms, 1, Len(Seed)) = Seed
              /\ \A i \in 1..Len(inc) :
                    ms[Len(Seed) + i] = UserMessage(inc[i].content)
    /\ OneResponse
    /\ FreshAssistantHi

IsChunk(e) == e.type = "ModelClientStreamingChunkEvent"

\* C9: a fully consumed on_messages_stream call has emitted chunk events
\* and then one Response, its last item, whose content is the chunks'
\* contents joined in emission order; no chunk follows the Response, and
\* the stream has ended.
C9_StreamShape ==
    \A s \in StreamIds :
        LET st == streams[s]
            e == st.emitted
            n == Len(e)
        IN  /\ \A i \in 1..(n - 1) : IsChunk(e[i])
            /\ (n > 0 /\ ~IsChunk(e[n])) => st.pc \in {"responded", "closed"}
            /\ st.outcome = "exhausted" =>
                  /\ st.pc = "closed"
                  /\ n > 0
                  /\ e[n].type = "Response"
                  /\ e[n].chat_message.content
                        = Join([i \in 1..(n - 1) |-> e[i].content])

C9_Witness ==
    /\ streams["s1"].outcome = "exhausted"
    /\ Len(streams["s1"].emitted) = 8
    /\ streams["s1"].emitted[8].chat_message.content = PlaceholderText

\* C10: once the token of an on_messages_stream call is triggered between
\* two chunks, the call emits no further chunk and no Response, and does
\* not end as a normally exhausted stream.
C10_CancelAborts ==
    \A s \in StreamIds :
        (streams[s].cancelled /\ streams[s].seen_at_cancel > 0) =>
            /\ Len(streams[s].emitted) = streams[s].seen_at_cancel
            /\ streams[s].pc # "responded"
            /\ streams[s].outcome # "exhausted"

\* C11: when on_messages fails while converting a message of its batch, the
\* Conversation is what it was before the call: nothing of the batch is
\* appended, the messages before the offending one included; the call
\* returns no Response and the exception reaches the caller.
C11_FailedBatchAppendsNothing ==
    [][raised' # None =>
          /\ meepo'._conversation = meepo._conversation
          /\ arrivals' = arrivals
          /\ last_op' = "on_messages" => response' = None
          /\ The(raised').exc \in {"AttributeError", "ValidationError"}]_vars

C11_Witness ==
    /\ last_op = "on_messages"
    /\ raised # None
    /\ FirstFailure(The(raised).messages) = 2
    /\ arrivals # <<>>
    /\ Len(meepo._conversation.messages) = Len(built.messages) + 1

\* C12: the adapter's on_messages_stream yields exactly the items the wrapped
\* agent's on_messages_stream yields for the same arguments: the same items
\* in the same order and number; it ends when the wrapped stream ends, and an
\* exception raised by the wrapped stream reaches the consumer unchanged.
C12_StreamForwarded ==
    /\ ad_stream.emitted = ad_stream.x_yielded
    /\ ad_stream.x_args # None => The(ad_stream.x_args) = ad_stream.args
    /\ (ad_stream.pc # "new" /\ ad_stream.emitted # <<>>) =>
          ad_stream.x_args # None
    /\ ad_stream.x_outcome # None =>
          /\ ad_stream.pc = "closed"
          /\ ad_stream.outcome = ad_stream.x_outcome
    /\ (ad_stream.outcome # None
            /\ ad_stream.outcome # Some(Raise("GeneratorExit"))) =>
          ad_stream.x_outcome = ad_stream.outcome

C12_Witness ==
    /\ ad_stream.pc = "closed"
    /\ ad_stream.outcome = Some(Raise("RuntimeError"))
    /\ Len(ad_stream.emitted) = 3
    /\ ad_stream.emitted[1] = ad_stream.emitted[2]
    /\ ad_stream.emitted[3].type = "Response"

\* The exception e is an attribute-not-found error.
IsAttributeError(e) == e.kind = "raise" /\ e.value.exc = "AttributeError"

\* The message of the exception e has text as one of its parts.
Names_(e, text) == \E i \in 1..Len(e.value.message) : e.value.message[i] = text

\* C13: a lookup on an adapter of a name the adapter does not define returns
\* the wrapped agent's current value when the wrapped agent has the member;
\* fails with an attribute-not-found error naming the member and the
\* wrapping class when it has not; and, when the adapter has no internal
\* agent, ends with an attribute-not-found error naming the wrapping class.
C13_AttributeLookup ==
    (ad_read # None /\ The(ad_read).op = "__getattr__") =>
        LET r == The(ad_read)
            has_agent == /\ "_internal_agent" \in DOMAIN r.self
                         /\ r.self._internal_agent # NoneRef
        IN  IF has_agent /\ r.wrapped_has
            THEN r.result = Return(r.wrapped_value)
            ELSE IF has_agent
            THEN /\ IsAttributeError(r.result)
                 /\ Names_(r.result, r.name)
                 /\ Names_(r.result, r.self.class)
            ELSE /\ IsAttributeError(r.result)
                 /\ Names_(r.result, r.self.class)

\* C17: the adapter's name and description are those the wrapped agent had
\* when the adapter was built, whatever they are now; its
\* produced_message_types is what the wrapped agent reports at each read.
C17_SnapshotAndLive ==
    (ad_read # None /\ The(ad_read).op # "__getattr__") =>
        LET r == The(ad_read) IN
        /\ r.op = "name" => r.result = Return(The(x_born).name)
        /\ r.op = "description" => r.result = Return(The(x_born).description)
        /\ r.op = "produced_message_types" =>
              r.result = Return(r.wrapped_value)

C17_Witness ==
    /\ ad_read # None
    /\ The(ad_read).op = "produced_message_types"
    /\ The(ad_read).result
          = Return(<<"TextMessage", "MultiModalMessage">>)
    /\ The(x_born).produced_message_types = <<"TextMessage">>
    /\ x.name = "renamed"
    /\ x.description = "changed"
    /\ The(adapted).adapter.name = "assistant"
    /\ The(adapted).adapter.description = "An agent"

DefaultCodeExecutorPrompt ==
    "You are a code execution agent capable of running code and "
        \o "returning the results."

\* C14: create_assistant and create_code_executor seed exactly one system
\* message: the caller's system_message whenever one is supplied, the
\* factory's default prompt only when none is; create_user_proxy seeds
\* nothing unless the caller supplies a system message; each factory sets
\* its agent type, and description, system message and model are the
\* caller's override when one is given, else the default.
C14_FactorySeeds ==
    built.via \in {"create_assistant", "create_code_executor",
                   "create_user_proxy"} =>
        LET prompt == IF built.via = "create_assistant"
                      THEN DefaultAssistantPrompt
                      ELSE DefaultCodeExecutorPrompt
            about == CASE built.via = "create_assistant"
                            -> "A helpful AI assistant"
                       [] built.via = "create_code_executor"
                            -> "An agent that can execute code"
                       [] built.via = "create_user_proxy"
                            -> "A user proxy agent"
            tag == CASE built.via = "create_assistant" -> "assistant"
                     [] built.via = "create_code_executor" -> "code_executor"
                     [] built.via = "create_user_proxy" -> "user_proxy"
        IN  /\ meepo.agent_type = tag
            /\ meepo.description = Default(built.description, about)
            /\ IF built.via = "create_user_proxy"
               THEN /\ built.system_message = None => built.messages = <<>>
                    /\ meepo._system_message = built.system_message
               ELSE /\ built.messages
                        = SystemOnly(Default(built.system_message, prompt))
                    /\ meepo._system_message
                        = Some(Default(built.system_message, prompt))
                    /\ meepo._llm_config.model = Default(built.llm, "gpt-4")

\* An incoming message as the Conversation is expected to hold it.
Stored(m) ==
    UserMessage(IF m.kind = "TextMessage" THEN m.content
                ELSE IF m.content = ListC(<<"look", "here">>)
                THEN StrC("['look', 'here']")
                ELSE m.content)

StoredAll(batch) == [i \in 1..Len(batch) |-> Stored(batch[i])]

\* C15: whatever the point at which a call is cancelled or abandoned, the
\* Conversation holds none of its batch or all of it, in order: a step of
\* the agent leaves the messages as they are, or appends one whole batch
\* after them, or is a reset; giving a stream up, or triggering its token,
\* changes nothing.
C15_NoPartialBatch ==
    [][LET ms == meepo._conversation.messages
           ms2 == meepo'._conversation.messages
       IN  /\ \/ ms2 = ms
              \/ last_op' = "on_reset" /\ ms2 = Seed'
              \/ \E b \in AgentBatches : ms2 = ms \o StoredAll(b)
           /\ (\E s \in StreamIds :
                  /\ streams'[s] # streams[s]
                  /\ \/ streams'[s].outcome = "abandoned"
                     \/ streams'[s].cancelled /\ ~streams[s].cancelled)
                => ms2 = ms]_vars

C15_Witness ==
    LET st == streams["s1"] IN
    /\ st.outcome = "abandoned"
    /\ st.idx = 3
    /\ Len(st.messages) = 2
    /\ arrivals = <<Arrival("on_messages", <<TextMessage(StrC("hi"), "user")>>),
                    Arrival("on_messages_stream", st.messages)>>
    /\ meepo._conversation.messages
          = Seed \o <<UserMessage(StrC("hi"))>> \o StoredAll(st.messages)

\* C16: on_messages_stream and on_messages have the same effect: whichever
\* of the two brought a batch, the Conversation holds it in the same form,
\* so it is the seed followed by every batch taken in, in arrival order; and
\* the terminal Response of a stream carries the same content as the
\* Response of on_messages, the placeholder text.
C16_StreamEqualsOnMessages ==
    /\ meepo._conversation.messages = Seed \o StoredAll(Incoming(arrivals))
    /\ OneResponse
    /\ \A s \in StreamIds :
          LET e == streams[s].emitted IN
          (e # <<>> /\ e[Len(e)].type = "Response") =>
              /\ e[Len(e)].chat_message
                    = TextMessage(PlaceholderText, meepo.name)
              /\ e[Len(e)].chat_message.content = _generate_response

C16_Witness ==
    /\ response # None
    /\ streams["s1"].pc = "responded"
    /\ Len(arrivals) = 2
    /\ arrivals[1].op = "on_messages"
    /\ arrivals[2].op = "on_messages_stream"
    /\ arrivals[1].messages = arrivals[2].messages
    /\ Len(arrivals[1].messages) = 2
    /\ streams["s1"].emitted[8].chat_message
          = The(response).result.chat_message

\* C18: a generate_response call of the synchronous wrapper leaves the
\* wrapped agent, its Conversation included, as it was; it builds a fresh
\* Conversation holding the configured system message, if any, followed by
\* the given message (a string as a user message) and returns the generated
\* text; reset() puts the wrapped agent's Conversation back to its state
\* right after construction.
C18_GenerateResponseFrame ==
    [][/\ last_op' = "generate_response" =>
             /\ meepo' = meepo
             /\ arrivals' = arrivals
             /\ LET o == The(sync_out') IN
                /\ o.conversation.messages
                      = Seed \o <<IF IsStr(o.message)
                                  THEN UserMessage(o.message)
                                  ELSE o.message>>
                /\ o.conversation.conversation_id
                      # meepo._conversation.conversation_id
                /\ o.result = PlaceholderText
       /\ last_op' = "reset" =>
             /\ meepo'._conversation.messages = built.messages
             /\ meepo'._conversation.conversation_id
                   = meepo._conversation.conversation_id
       /\ meepo'._conversation # meepo._conversation =>
             last_op' \in {"reset", "on_messages"}]_vars

C18_Witness ==
    /\ last_op = "generate_response"
    /\ sync_out # None
    /\ ~IsStr(The(sync_out).message)
    /\ Len(The(sync_out).conversation.messages) = 2
    /\ Len(arrivals) = 2
    /\ Len(meepo._conversation.messages) = 4

\* The contents of the chunk events among the items e.
ChunkContents(e) ==
    LET n == IF e # <<>> /\ ~IsChunk(e[Len(e)]) THEN Len(e) - 1 ELSE Len(e)
    IN  [i \in 1..n |-> e[i].content]

\* What one stream has emitted is its own: the first chunks of the response,
\* in order, each once, and after all of them one Response carrying their
\* concatenation.
OwnItems(st) ==
    LET e == st.emitted
        c == ChunkContents(e)
    IN  /\ Len(c) <= Len(chunks)
        /\ c = SubSeq(chunks, 1, Len(c))
        /\ \A i \in 1..Len(c) : IsChunk(e[i])
        /\ Len(e) > Len(c) =>
              /\ Len(e) = Len(chunks) + 1
              /\ e[Len(e)] = Response(TextMessage(Join(c), meepo.name))
        /\ st.pc \in {"none", "new"} => e = <<>>
        /\ st.outcome = "exhausted" => Len(e) = Len(chunks) + 1

\* C19: with two on_messages_stream calls interleaved, the Conversation is
\* the seed followed by whole batches, one per stream that was advanced, in
\* the order of their first advance: the step that first advances a stream
\* appends its batch, whole and in order, and no other step of a stream
\* touches the Conversation; each stream emits its own chunks, all of them,
\* and then a Response carrying the concatenation of its own chunks.
C19_InterleavedStreams ==
    [][LET ms == meepo._conversation.messages
           ms2 == meepo'._conversation.messages
       IN  /\ ms2 = Seed' \o StoredAll(Incoming(arrivals'))
           /\ \A s \in StreamIds :
                 /\ OwnItems(streams'[s])
                 /\ (streams[s].pc = "new" /\ streams'[s].pc = "yielded") =>
                       /\ ms2 = ms \o StoredAll(streams[s].messages)
                       /\ arrivals' = Append(arrivals,
                              Arrival("on_messages_stream",
                                      streams[s].messages))
           /\ (\A s \in StreamIds :
                  ~(streams[s].pc = "new" /\ streams'[s].pc = "yielded"))
                => (ms2 = ms /\ arrivals' = arrivals)]_vars

C19_Witness ==
    /\ streams["s1"].pc = "responded"
    /\ streams["s2"].pc = "sleeping"
    /\ streams["s2"].idx = 4
    /\ Len(streams["s1"].messages) = 1
    /\ Len(streams["s2"].messages) = 2
    /\ arrivals = <<Arrival("on_messages_stream", streams["s2"].messages),
                    Arrival("on_messages_stream", streams["s1"].messages)>>
    /\ Len(meepo._conversation.messages) = Len(built.messages) + 3

====
